---- MODULE Spec2Model ----
(***************************************************************************)
(* Ledger and on-chain reconciliation engine of betbetter.                 *)
(*                                                                         *)
(* The state is the two MongoDB collections (User, Transaction), the part  *)
(* of the chain the handlers read and write (deposit transactions, the     *)
(* treasury's USDC balance, the payouts it has sent) and, per in-flight    *)
(* HTTP request, the position of its handler and the handler's locals.     *)
(* Every `await` of a handler that touches shared state is one action, so  *)
(* that two requests interleave exactly where the Node event loop lets     *)
(* them interleave.                                                        *)
(*                                                                         *)
(* Amounts are fixed-point numbers in units of 0.001 token (1 USDC =       *)
(* 1 token = 1000), so that 0.01, 0.05 and a third decimal are integers.   *)
(***************************************************************************)
EXTENDS Integers, Sequences, FiniteSets, TLC

\* ---------------------------------------------------------------- bounds
MaxReq == 2

\* ------------------------------------------------------- program constants
DEPOSIT_FEE == 10
NETLIFY_DEPOSIT_FEE == 50
ADMIN_DEPOSIT_FEE == 50
\* dice3d.js: the fee of its POST /api/deposit and of scanForNewDeposits.
DICE3D_DEPOSIT_FEE == 50
SCAN_DEPOSIT_FEE == 50
STARTING_BALANCE == 50000
MAX_WITHDRAW == 10000000
MAX_BET == 1000000000
\* place-bet (dice3d.js): bets per account in the trailing second.
RATE_LIMIT == 5

\* ------------------------------------------------------------- the world
Users == {"u1", "u2"}
ProcOrder == << "p1", "p2" >>
Procs == {ProcOrder[i] : i \in 1..Len(ProcOrder)}
NoAddr == "none"
TreasuryOwner == "T"
USDC_MINT == "usdc"

\* A transaction hash: a deposit transfer found on chain, a payout sent by
\* the treasury, or no hash at all (the field is absent from the document).
ChainSig(i) == [kind |-> "chain", n |-> i]
PayoutSig(i) == [kind |-> "payout", n |-> i]
NoHash == [kind |-> "null", n |-> 0]

Sigs == {ChainSig(1), ChainSig(2), ChainSig(3)}
\* Further signatures submitted to the manual deposit endpoints.
OddSigs == {ChainSig(4), ChainSig(5), ChainSig(6)}
\* A transfer that does not involve the treasury.
ForeignSigs == {ChainSig(7)}

\* The associated token account of a wallet.
AtaOf(owner) == "ata" \o owner

Row(owner, pre, post) == [mint |-> USDC_MINT, owner |-> owner, pre |-> pre, post |-> post]
NoInstr == [found |-> FALSE, amount |-> 0, source |-> NoAddr, dest |-> NoAddr]
Transfer(from, to, amt) ==
  [found |-> TRUE, err |-> FALSE,
   rows |-> << Row(from, amt, 0), Row(to, 0, amt) >>,
   instr |-> [found |-> TRUE, amount |-> amt, source |-> AtaOf(from), dest |-> AtaOf(to)]]
NotFoundTx == [found |-> FALSE, err |-> FALSE, rows |-> << >>, instr |-> NoInstr]
\* A transaction whose meta.err is set: the instruction is in the message,
\* the token balances before and after are the same.
FailedTransfer(from, to, amt) ==
  [found |-> TRUE, err |-> TRUE,
   rows |-> << Row(from, amt, amt), Row(to, 0, 0) >>,
   instr |-> [found |-> TRUE, amount |-> amt, source |-> AtaOf(from), dest |-> AtaOf(to)]]
\* A confirmed transfer of a token other than USDC.
OtherMintTransfer(from, to, amt) ==
  [found |-> TRUE, err |-> FALSE,
   rows |-> << [Row(from, amt, 0) EXCEPT !.mint = "other"],
               [Row(to, 0, amt) EXCEPT !.mint = "other"] >>,
   instr |-> [found |-> TRUE, amount |-> amt, source |-> AtaOf(from), dest |-> AtaOf(to)]]

\* What the RPC node returns for a signature (getParsedTransaction /
\* getTransaction): wallet A sent 10.00 to the treasury (sig 1), wallet B
\* sent 10.00 (sig 2), sig 3 is unknown to the node, sig 4 is a transfer of
\* A's that failed on chain (no balance moved), with sig 5 wallet A sent
\* 10.00 of another token, with sig 6 wallet A sent 0.055 USDC, and with
\* sig 7 wallet A sent 10.00 USDC to a third party's wallet C.
ChainTx(sig) ==
  CASE sig = ChainSig(1) -> Transfer("A", TreasuryOwner, 10000)
    [] sig = ChainSig(2) -> Transfer("B", TreasuryOwner, 10000)
    [] sig = ChainSig(4) -> FailedTransfer("A", TreasuryOwner, 10000)
    [] sig = ChainSig(5) -> OtherMintTransfer("A", TreasuryOwner, 10000)
    [] sig = ChainSig(6) -> Transfer("A", TreasuryOwner, 55)
    [] sig = ChainSig(7) -> Transfer("A", "C", 10000)
    [] OTHER -> NotFoundTx

\* The wallet's own USDC balance as getTokenAccountBalance reports it; the
\* call throws for an address that is not a wallet with a token account.
WalletUsdc(addr) ==
  CASE addr = "A" -> [ok |-> TRUE, amount |-> 100000]
    [] addr = "B" -> [ok |-> TRUE, amount |-> 100000]
    [] OTHER -> [ok |-> FALSE, amount |-> 0]

VARIABLES
  gameBalance,     \* User.gameBalance, per account
  solanaAddress,   \* User.solanaAddress, per account (NoAddr: not set)
  withdrawAddress, \* User.withdrawAddress, per account (NoAddr: not set)
  treasuryEnv,     \* process.env.TREASURY_ADDRESS (NoAddr: not configured)
  ledger,          \* the Transaction collection, in insertion order
  treasuryUsdc,    \* USDC held by the treasury's token account
  payouts,         \* transfers the treasury has sent, in order
  pc,              \* per request slot: the await the handler is parked at
  loc,             \* per request slot: the handler's locals
  resp,            \* the response sent by the step just taken, if it sent one
  firstReport,     \* walletVerified / isFirstDeposit in that response's body
  nreq             \* requests started so far

vars == << gameBalance, solanaAddress, withdrawAddress, treasuryEnv, ledger,
           treasuryUsdc, payouts, pc, loc, resp, firstReport, nreq >>

db == << gameBalance, solanaAddress, withdrawAddress, ledger >>

Max0(x) == IF x > 0 THEN x ELSE 0

\* Math.floor(x * 100) / 100 on a fixed-point amount.
FloorCents(x) == (x \div 10) * 10

IdleLoc ==
  [op |-> "none", ep |-> "none", uid |-> "u1", sig |-> NoHash, amount |-> 0,
   bal |-> 0, addr |-> NoAddr, newAddr |-> NoAddr, delta |-> 0,
   sender |-> NoAddr, win |-> FALSE, raw |-> << 0, 0 >>, readFailed |-> FALSE,
   i |-> 0]

NoResp == [proc |-> "none", status |-> "none"]
\* The body carries no first-deposit flag.
NoReport == "none"
Reply(p, s) == [proc |-> p, status |-> s]

\* ------------------------------------------------------ Transaction model
\* Variants used to test the properties below: a duplicate check that never
\* finds anything, and a collection without the unique index.
TxFindOneBlind(led, h) == FALSE
TxNoUniqueIndex(led, h) == FALSE

\* GameTransaction.findOne({ solanaTxHash: h })
TxFindOne(led, h) == \E i \in 1..Len(led) : led[i].solanaTxHash = h

\* The unique index on solanaTxHash declared by transactionSchema. The index
\* is neither sparse nor partial: a document without the field is indexed
\* under null, so NoHash is a key like any other.
TxDuplicateKey(led, h) == \E i \in 1..Len(led) : led[i].solanaTxHash = h

TxDoc(u, type, amt, h) ==
  [userId |-> u, type |-> type, amount |-> amt, tokenAmount |-> amt,
   solanaTxHash |-> h, status |-> "completed"]

\* user.save(): Mongoose writes the modified paths of the loaded document,
\* i.e. $set of the values computed from the handler's own snapshot.
SavedBalance(l) == l.bal + l.delta
SavedAddress(l, cur) == IF l.newAddr # NoAddr THEN l.newAddr ELSE cur

\* ------------------------------------------------------- deposit parsing
\* server.js: the loop over preTokenBalances has no break, the last row
\* that lost USDC wins.
RECURSIVE ExtractLast(_, _)
ExtractLast(rows, acc) ==
  IF rows = << >> THEN acc
  ELSE LET r == Head(rows)
           nxt == IF r.mint = USDC_MINT /\ r.pre > r.post
                  THEN [sender |-> r.owner, amount |-> r.pre - r.post]
                  ELSE acc
       IN ExtractLast(Tail(rows), nxt)

\* deposit function: the loop breaks at the first row that lost USDC.
RECURSIVE ExtractFirst(_)
ExtractFirst(rows) ==
  IF rows = << >> THEN [sender |-> NoAddr, amount |-> 0]
  ELSE LET r == Head(rows)
       IN IF r.mint = USDC_MINT /\ r.pre > r.post
          THEN [sender |-> r.owner, amount |-> r.pre - r.post]
          ELSE ExtractFirst(Tail(rows))

Verdict(s, sender, newAddr, delta) ==
  [status |-> s, sender |-> sender, newAddr |-> newAddr, delta |-> delta]
Reject(s) == Verdict(s, NoAddr, NoAddr, 0)

\* Sender check and first-deposit binding against the handler's snapshot.
BindOrMatch(addr, sender, credit) ==
  IF addr # NoAddr
  THEN IF addr # sender THEN Reject("AddressMismatch")
       ELSE Verdict("ok", sender, NoAddr, credit)
  ELSE Verdict("ok", sender, sender, credit)

\* Variant used to test the properties below: meta.err is not looked at.
VerifyServerIgnoresErr(sig, addr) ==
  LET tx == ChainTx(sig)
      x == ExtractLast(tx.rows, [sender |-> NoAddr, amount |-> 0])
  IN IF ~tx.found THEN Reject("ExternalNotFound")
     ELSE IF x.amount <= 0 \/ x.sender = NoAddr THEN Reject("NoMatchingTransfer")
     ELSE BindOrMatch(addr, x.sender, Max0(x.amount - DEPOSIT_FEE))

\* POST /api/deposit (server.js): verification of the fetched transaction.
VerifyServer(sig, addr) ==
  LET tx == ChainTx(sig)
      x == ExtractLast(tx.rows, [sender |-> NoAddr, amount |-> 0])
  IN IF ~tx.found THEN Reject("ExternalNotFound")
     ELSE IF tx.err THEN Reject("ExternalTxFailed")
     ELSE IF x.amount <= 0 \/ x.sender = NoAddr THEN Reject("NoMatchingTransfer")
     ELSE BindOrMatch(addr, x.sender, Max0(x.amount - DEPOSIT_FEE))

\* POST /api/deposit (dice3d.js): the steps of server.js with a fee of 0.05.
VerifyDice3d(sig, addr) ==
  LET tx == ChainTx(sig)
      x == ExtractLast(tx.rows, [sender |-> NoAddr, amount |-> 0])
  IN IF ~tx.found THEN Reject("ExternalNotFound")
     ELSE IF tx.err THEN Reject("ExternalTxFailed")
     ELSE IF x.amount <= 0 \/ x.sender = NoAddr THEN Reject("NoMatchingTransfer")
     ELSE BindOrMatch(addr, x.sender, Max0(x.amount - DICE3D_DEPOSIT_FEE))

\* scanForNewDeposits: meta.err is not looked at, the loop breaks at the
\* first row that lost USDC, the account is looked up by the sender later.
VerifyScan(sig) ==
  LET tx == ChainTx(sig)
      x == ExtractFirst(tx.rows)
  IN IF ~tx.found THEN Reject("ExternalNotFound")
     ELSE IF x.amount <= 0 \/ x.sender = NoAddr THEN Reject("NoMatchingTransfer")
     ELSE Verdict("ok", x.sender, NoAddr, Max0(x.amount - SCAN_DEPOSIT_FEE))

\* deposit function (Netlify): same steps, fee 0.05, credit floored to cents.
VerifyNetlify(sig, addr) ==
  LET tx == ChainTx(sig)
      x == ExtractFirst(tx.rows)
  IN IF ~tx.found THEN Reject("ExternalNotFound")
     ELSE IF tx.err THEN Reject("ExternalTxFailed")
     ELSE IF x.amount = 0 THEN Reject("NoMatchingTransfer")
     ELSE BindOrMatch(addr, x.sender,
                      FloorCents(Max0(x.amount - NETLIFY_DEPOSIT_FEE)))

\* buy-tokens function: the account must already have an address, the
\* wallet must hold the amount, the transfer instruction must carry the
\* requested amount. The transaction's sender is never looked at.
VerifyBuy(sig, addr, amount) ==
  LET tx == ChainTx(sig)
      w == WalletUsdc(addr)
  IN IF ~w.ok \/ w.amount < amount THEN Reject("Validation")
     ELSE IF ~tx.found THEN Reject("ExternalNotFound")
     ELSE IF ~tx.instr.found THEN Reject("NoMatchingTransfer")
     ELSE IF tx.instr.amount # amount THEN Reject("Validation")
     ELSE Verdict("ok", addr, NoAddr, amount)

\* ------------------------------------------------------------------ Init
\* The database as the handlers find it: u1 has just signed up through
\* /api/auth/google (50 tokens, no address); u2 signed up through the
\* Netlify auth function (0 tokens) and has since deposited wallet B's
\* transfer (sig 2) through POST /api/deposit, which bound B to the account
\* and credited 10.00 - 0.01. No request is in flight.
FirstDeposit == TxDoc("u2", "deposit", Max0(10000 - DEPOSIT_FEE), ChainSig(2))
InitialBalance(u) == IF u = "u1" THEN STARTING_BALANCE ELSE FirstDeposit.tokenAmount

InitData ==
  /\ gameBalance = [u \in Users |-> InitialBalance(u)]
  /\ solanaAddress = [u \in Users |-> IF u = "u1" THEN NoAddr ELSE "B"]
  /\ withdrawAddress = [u \in Users |-> NoAddr]
  /\ ledger = << FirstDeposit >>
  /\ treasuryUsdc \in {10000, 15000}
  /\ payouts = << >>
  /\ pc = [p \in Procs |-> "idle"]
  /\ loc = [p \in Procs |-> IdleLoc]
  /\ resp = NoResp
  /\ firstReport = NoReport
  /\ nreq = 0

\* The deployment sets TREASURY_ADDRESS to the treasury's address.
Init == InitData /\ treasuryEnv = TreasuryOwner

\* Any deployment: TREASURY_ADDRESS is optional, the treasury itself is
\* given by TREASURY_KEYPAIR.
InitAnyEnv == InitData /\ treasuryEnv \in {NoAddr, TreasuryOwner}

\* ------------------------------------------------------ request plumbing
\* The handler returns (or its catch block answers): the slot is free again.
FinishWith(p, s, report) ==
  /\ pc' = [pc EXCEPT ![p] = "idle"]
  /\ loc' = [loc EXCEPT ![p] = IdleLoc]
  /\ resp' = Reply(p, s)
  /\ firstReport' = report

Finish(p, s) == FinishWith(p, s, NoReport)

\* The handler parks at its next await.
Goto(p, label, l) ==
  /\ pc' = [pc EXCEPT ![p] = label]
  /\ loc' = [loc EXCEPT ![p] = l]
  /\ resp' = NoResp
  /\ firstReport' = NoReport

\* A new request takes the first free slot.
Arrive(p) ==
  /\ pc[p] = "idle"
  /\ \A i \in 1..Len(ProcOrder) :
       (\E j \in 1..Len(ProcOrder) : j > i /\ ProcOrder[j] = p) => pc[ProcOrder[i]] # "idle"
  /\ nreq < MaxReq
  /\ nreq' = nreq + 1

\* ------------------------------------------------------------ inputs
DepositEndpoints == {"server", "netlify"}
WithdrawEndpoints == {"server", "netlify"}
BuyAmounts == {0, 10000}
CreditAmounts == {10000}
WithdrawAmounts == {0, 6000}
OddWithdrawAmounts == {6005}
BetAmounts == {0, 6000}
Wallets == {"A", "B"}

UserOrder == << "u1", "u2" >>

\* User.findOne({ solanaAddress: a }): the first matching account, if any.
UsersAt(a) == {i \in 1..Len(UserOrder) : solanaAddress[UserOrder[i]] = a}
FindUserByAddress(a) ==
  UserOrder[CHOOSE i \in UsersAt(a) : \A j \in UsersAt(a) : i <= j]

\* --------------------------------------------- POST /api/deposit (manual)
\* The handler loads the account (User.findById) and keeps that snapshot
\* for the rest of the request.
DepositBeginWith(p, sigs) ==
  \E u \in Users, sig \in sigs, ep \in DepositEndpoints :
    /\ Arrive(p)
    /\ Goto(p, "dep_find",
            [IdleLoc EXCEPT !.op = "deposit", !.ep = ep, !.uid = u, !.sig = sig,
                            !.bal = gameBalance[u], !.addr = solanaAddress[u]])
    /\ UNCHANGED << db, treasuryEnv, treasuryUsdc, payouts >>

DepositBegin(p) == DepositBeginWith(p, Sigs)

\* The same request carrying one of the further signatures.
DepositBeginOdd(p) == DepositBeginWith(p, OddSigs)

\* The same request carrying the signature of a transfer between two other
\* parties.
DepositBeginForeign(p) == DepositBeginWith(p, ForeignSigs)

\* Duplicate check (findOne), then the transaction is fetched and verified.
DepositFind(p) ==
  /\ pc[p] = "dep_find"
  /\ LET l == loc[p]
         v == IF l.ep = "server" THEN VerifyServer(l.sig, l.addr)
              ELSE VerifyNetlify(l.sig, l.addr)
     IN IF TxFindOne(ledger, l.sig) THEN Finish(p, "Conflict")
        ELSE IF v.status # "ok" THEN Finish(p, v.status)
        ELSE Goto(p, "dep_saveUser",
                  [l EXCEPT !.sender = v.sender, !.newAddr = v.newAddr,
                            !.delta = v.delta])
  /\ UNCHANGED << db, treasuryEnv, treasuryUsdc, payouts, nreq >>

\* POST /api/deposit of dice3d.js: the account is loaded ...
Dice3dDepositBegin(p) ==
  \E u \in Users, sig \in Sigs :
    /\ Arrive(p)
    /\ Goto(p, "dice_find",
            [IdleLoc EXCEPT !.op = "deposit", !.ep = "dice3d", !.uid = u, !.sig = sig,
                            !.bal = gameBalance[u], !.addr = solanaAddress[u]])
    /\ UNCHANGED << db, treasuryEnv, treasuryUsdc, payouts >>

\* ... then the duplicate check and the verification; the two saves are
\* those of server.js.
Dice3dDepositFind(p) ==
  /\ pc[p] = "dice_find"
  /\ LET l == loc[p]
         v == VerifyDice3d(l.sig, l.addr)
     IN IF TxFindOne(ledger, l.sig) THEN Finish(p, "Conflict")
        ELSE IF v.status # "ok" THEN Finish(p, v.status)
        ELSE Goto(p, "dep_saveUser",
                  [l EXCEPT !.sender = v.sender, !.newAddr = v.newAddr,
                            !.delta = v.delta])
  /\ UNCHANGED << db, treasuryEnv, treasuryUsdc, payouts, nreq >>

\* buy-tokens function: amount validation, account load, verification of
\* the submitted transaction.
BuyTokensBegin(p) ==
  \E u \in Users, sig \in Sigs, amount \in BuyAmounts :
    /\ Arrive(p)
    /\ LET v == VerifyBuy(sig, solanaAddress[u], amount)
       IN IF amount <= 0 \/ amount > MAX_WITHDRAW THEN Finish(p, "Validation")
          ELSE IF solanaAddress[u] = NoAddr THEN Finish(p, "Unbound")
          ELSE IF v.status # "ok" THEN Finish(p, v.status)
          ELSE Goto(p, "buy_find",
                    [IdleLoc EXCEPT !.op = "deposit", !.ep = "buy", !.uid = u,
                                    !.sig = sig, !.amount = amount,
                                    !.bal = gameBalance[u], !.addr = solanaAddress[u],
                                    !.sender = v.sender, !.delta = v.delta])
    /\ UNCHANGED << db, treasuryEnv, treasuryUsdc, payouts >>

\* buy-tokens function: the duplicate check follows the verification.
BuyTokensFind(p) ==
  /\ pc[p] = "buy_find"
  /\ IF TxFindOne(ledger, loc[p].sig) THEN Finish(p, "Conflict")
     ELSE Goto(p, "dep_saveUser", loc[p])
  /\ UNCHANGED << db, treasuryEnv, treasuryUsdc, payouts, nreq >>

\* user.gameBalance += gameTokens; await user.save()
DepositSaveUser(p) ==
  /\ pc[p] = "dep_saveUser"
  /\ LET l == loc[p]
     IN /\ gameBalance' = [gameBalance EXCEPT ![l.uid] = SavedBalance(l)]
        /\ solanaAddress' =
             [solanaAddress EXCEPT ![l.uid] = SavedAddress(l, solanaAddress[l.uid])]
        /\ Goto(p, "dep_saveTx", l)
  /\ UNCHANGED << withdrawAddress, treasuryEnv, ledger, treasuryUsdc, payouts, nreq >>

\* The first-deposit flag of the success response. server.js evaluates
\* walletVerified: !user.solanaAddress on the document after the sender's
\* address was assigned to it; the deposit function evaluates
\* isFirstDeposit = !user.solanaAddress before the assignment; buy-tokens
\* reports no flag.
DepositReport(l) ==
  LET docAddr == IF l.newAddr # NoAddr THEN l.newAddr ELSE l.addr
  IN IF l.ep \in {"server", "dice3d"}
     THEN (IF docAddr = NoAddr THEN "first" ELSE "notFirst")
     ELSE IF l.ep = "netlify" THEN (IF l.addr = NoAddr THEN "first" ELSE "notFirst")
     ELSE NoReport

\* Variant used to test the properties below: the entry is written with an
\* upsert keyed by solanaTxHash, so a second write replaces the first entry.
DepositSaveTxUpsert(p) ==
  /\ pc[p] = "dep_saveTx"
  /\ LET l == loc[p]
         doc == TxDoc(l.uid, "deposit", l.delta, l.sig)
     IN /\ ledger' = IF TxDuplicateKey(ledger, l.sig)
                     THEN [i \in 1..Len(ledger) |->
                             IF ledger[i].solanaTxHash = l.sig THEN doc ELSE ledger[i]]
                     ELSE Append(ledger, doc)
        /\ FinishWith(p, "ok", DepositReport(l))
  /\ UNCHANGED << gameBalance, solanaAddress, withdrawAddress, treasuryEnv,
               treasuryUsdc, payouts, nreq >>

\* await dbTransaction.save(): the insert is refused on a duplicate key and
\* the catch block answers 500 with the driver's E11000 message.
DepositSaveTx(p) ==
  /\ pc[p] = "dep_saveTx"
  /\ LET l == loc[p]
     IN IF ~TxDuplicateKey(ledger, l.sig)
        THEN /\ ledger' = Append(ledger, TxDoc(l.uid, "deposit", l.delta, l.sig))
             /\ FinishWith(p, "ok", DepositReport(l))
        ELSE /\ Finish(p, "DuplicateKey")
             /\ UNCHANGED ledger
  /\ UNCHANGED << gameBalance, solanaAddress, withdrawAddress, treasuryEnv,
               treasuryUsdc, payouts, nreq >>

\* --------------------------------------- POST /api/admin/credit-deposit
\* Credits the account found by wallet address; no duplicate check. (For a
\* wallet no account has, the handler creates an account: the requests
\* drawn here name a wallet some account is bound to.)
AdminCreditBegin(p) ==
  \E w \in Wallets, amount \in CreditAmounts, sig \in Sigs :
    /\ UsersAt(w) # {}
    /\ Arrive(p)
    /\ LET u == FindUserByAddress(w)
       IN Goto(p, "adm_saveUser",
               [IdleLoc EXCEPT !.op = "credit", !.ep = "admin", !.uid = u,
                               !.sig = sig, !.amount = amount,
                               !.bal = gameBalance[u], !.addr = solanaAddress[u],
                               !.sender = w,
                               !.delta = Max0(amount - ADMIN_DEPOSIT_FEE)])
    /\ UNCHANGED << db, treasuryEnv, treasuryUsdc, payouts >>

AdminCreditSaveUser(p) ==
  /\ pc[p] = "adm_saveUser"
  /\ gameBalance' = [gameBalance EXCEPT ![loc[p].uid] = SavedBalance(loc[p])]
  /\ Goto(p, "adm_saveTx", loc[p])
  /\ UNCHANGED << solanaAddress, withdrawAddress, treasuryEnv, ledger,
               treasuryUsdc, payouts, nreq >>

AdminCreditSaveTx(p) ==
  /\ pc[p] = "adm_saveTx"
  /\ LET l == loc[p]
     IN IF ~TxDuplicateKey(ledger, l.sig)
        THEN /\ ledger' = Append(ledger, TxDoc(l.uid, "deposit", l.delta, l.sig))
             /\ Finish(p, "ok")
        ELSE /\ Finish(p, "DuplicateKey")
             /\ UNCHANGED ledger
  /\ UNCHANGED << gameBalance, solanaAddress, withdrawAddress, treasuryEnv,
               treasuryUsdc, payouts, nreq >>

\* Variant used to test the properties below: no sufficiency check.
NoBalanceCheck(bal, amount) == FALSE

\* if (user.gameBalance < amount): the sufficiency check of withdraw and bet.
InsufficientBalance(bal, amount) == bal < amount

\* ------------------------------------------------------ POST /api/withdraw
\* Validation, account load, address and balance checks: all on the
\* snapshot read here.
WithdrawBeginWith(p, amounts) ==
  \E u \in Users, amount \in amounts, ep \in WithdrawEndpoints, a \in Wallets :
    /\ Arrive(p)
    /\ LET bal == gameBalance[u]
           addr == solanaAddress[u]
           invalid == IF ep = "server" THEN amount <= 0
                      ELSE amount <= 0 \/ amount > MAX_WITHDRAW
       IN IF invalid THEN Finish(p, "Validation")
          ELSE IF addr = NoAddr THEN Finish(p, "Unbound")
          ELSE IF ep = "server" /\ addr # a THEN Finish(p, "AddressMismatch")
          ELSE IF InsufficientBalance(bal, amount) THEN Finish(p, "InsufficientBalance")
          ELSE Goto(p, "wd_pool",
                    [IdleLoc EXCEPT !.op = "withdraw", !.ep = ep, !.uid = u,
                                    !.amount = amount, !.bal = bal, !.addr = addr,
                                    !.delta = 0 - amount])
    /\ UNCHANGED << db, treasuryEnv, treasuryUsdc, payouts >>

WithdrawBegin(p) == WithdrawBeginWith(p, WithdrawAmounts)

\* The same request with an amount of three decimals.
WithdrawBeginOdd(p) == WithdrawBeginWith(p, OddWithdrawAmounts)

\* Variant used to test the properties below: no pooled-funds check.
WithdrawPoolUnchecked(p) ==
  /\ pc[p] = "wd_pool"
  /\ Goto(p, "wd_transfer", loc[p])
  /\ UNCHANGED << db, treasuryEnv, treasuryUsdc, payouts, nreq >>

\* getUSDCBalance(treasury) and the pooled-funds check.
WithdrawPool(p) ==
  /\ pc[p] = "wd_pool"
  /\ IF treasuryUsdc < loc[p].amount THEN Finish(p, "InsufficientPoolFunds")
     ELSE Goto(p, "wd_transfer", loc[p])
  /\ UNCHANGED << db, treasuryEnv, treasuryUsdc, payouts, nreq >>

\* transferUSDC / sendAndConfirmTransaction confirms: the funds have left.
WithdrawTransfer(p) ==
  /\ pc[p] = "wd_transfer"
  /\ treasuryUsdc >= loc[p].amount
  /\ LET l == loc[p]
         sig == PayoutSig(Len(payouts) + 1)
     IN /\ payouts' = Append(payouts, [sig |-> sig, to |-> l.addr, amount |-> l.amount,
                                       uid |-> l.uid])
        /\ treasuryUsdc' = treasuryUsdc - l.amount
        /\ Goto(p, "wd_saveUser", [l EXCEPT !.sig = sig])
  /\ UNCHANGED << db, treasuryEnv, nreq >>

\* Variant used to test the properties below: the debit is written before
\* the transfer is known to have succeeded.
WithdrawTransferFailsDebited(p) ==
  /\ pc[p] = "wd_transfer"
  /\ gameBalance' = [gameBalance EXCEPT ![loc[p].uid] = SavedBalance(loc[p])]
  /\ Finish(p, "ExternalTransferFailed")
  /\ UNCHANGED << solanaAddress, withdrawAddress, treasuryEnv, ledger,
               treasuryUsdc, payouts, nreq >>

\* The transfer throws: the handler answers 500 and returns.
WithdrawTransferFails(p) ==
  /\ pc[p] = "wd_transfer"
  /\ Finish(p, "ExternalTransferFailed")
  /\ UNCHANGED << db, treasuryEnv, treasuryUsdc, payouts, nreq >>

\* user.gameBalance -= amount; await user.save()
WithdrawSaveUser(p) ==
  /\ pc[p] = "wd_saveUser"
  /\ gameBalance' = [gameBalance EXCEPT ![loc[p].uid] = SavedBalance(loc[p])]
  /\ Goto(p, "wd_saveTx", loc[p])
  /\ UNCHANGED << solanaAddress, withdrawAddress, treasuryEnv, ledger,
               treasuryUsdc, payouts, nreq >>

WithdrawSaveTx(p) ==
  /\ pc[p] = "wd_saveTx"
  /\ LET l == loc[p]
     IN IF ~TxDuplicateKey(ledger, l.sig)
        THEN /\ ledger' = Append(ledger, TxDoc(l.uid, "withdraw", l.amount, l.sig))
             /\ Finish(p, "ok")
        ELSE /\ Finish(p, "DuplicateKey")
             /\ UNCHANGED ledger
  /\ UNCHANGED << gameBalance, solanaAddress, withdrawAddress, treasuryEnv,
               treasuryUsdc, payouts, nreq >>

\* ------------------------------------------- place-bet (Netlify function)
\* crypto.randomBytes(4).readUInt32LE(0), as its two 16-bit halves.
RandomSamples == {<< 0, 0 >>, << 65535, 65535 >>}

\* The divisor 0xFFFFFFFF of the draw, as its two 16-bit halves.
DRAW_DIVISOR == << 65535, 65535 >>

\* raw / 0xFFFFFFFF < 0.50001, i.e. raw <= 2147526596 = 32768 * 65536 + 42948.
PlayerWins(raw) == raw[1] < 32768 \/ (raw[1] = 32768 /\ raw[2] <= 42948)

BetBegin(p) ==
  \E u \in Users, amount \in BetAmounts, raw \in RandomSamples :
    /\ Arrive(p)
    /\ LET bal == gameBalance[u]
           win == PlayerWins(raw)
       IN IF amount <= 0 \/ amount > MAX_BET THEN Finish(p, "Validation")
          ELSE IF amount % 10 # 0 THEN Finish(p, "Validation")
          ELSE IF InsufficientBalance(bal, amount) THEN Finish(p, "InsufficientBalance")
          ELSE Goto(p, "bet_saveUser",
                    [IdleLoc EXCEPT !.op = "bet", !.ep = "netlify", !.uid = u,
                                    !.amount = amount, !.bal = bal,
                                    !.addr = solanaAddress[u], !.win = win,
                                    !.raw = raw,
                                    !.delta = IF win THEN amount ELSE 0 - amount])
    /\ UNCHANGED << db, treasuryEnv, treasuryUsdc, payouts >>

\* user.gameBalance += netAmount; await user.save()
BetSaveUser(p) ==
  /\ pc[p] = "bet_saveUser"
  /\ gameBalance' = [gameBalance EXCEPT ![loc[p].uid] = SavedBalance(loc[p])]
  /\ Goto(p, "bet_saveTx", loc[p])
  /\ UNCHANGED << solanaAddress, withdrawAddress, treasuryEnv, ledger,
               treasuryUsdc, payouts, nreq >>

\* The bet's document carries no solanaTxHash.
BetSaveTx(p) ==
  /\ pc[p] = "bet_saveTx"
  /\ LET l == loc[p]
         type == IF l.win THEN "bet_win" ELSE "bet_loss"
     IN IF ~TxDuplicateKey(ledger, NoHash)
        THEN /\ ledger' = Append(ledger, TxDoc(l.uid, type, l.amount, NoHash))
             /\ Finish(p, "ok")
        ELSE /\ Finish(p, "ServerError")
             /\ UNCHANGED ledger
  /\ UNCHANGED << gameBalance, solanaAddress, withdrawAddress, treasuryEnv,
               treasuryUsdc, payouts, nreq >>

\* ------------------------------------ POST /api/game/place-bet (dice3d.js)
\* Validation, account load and balance check, then the handler awaits the
\* query for the account's recent bets.
BetBeginServer(p) ==
  \E u \in Users, amount \in BetAmounts :
    /\ Arrive(p)
    /\ LET bal == gameBalance[u]
       IN IF amount <= 0 \/ amount > MAX_BET THEN Finish(p, "Validation")
          ELSE IF amount % 10 # 0 THEN Finish(p, "Validation")
          ELSE IF InsufficientBalance(bal, amount) THEN Finish(p, "InsufficientBalance")
          ELSE Goto(p, "bet_rate",
                    [IdleLoc EXCEPT !.op = "bet", !.ep = "server", !.uid = u,
                                    !.amount = amount, !.bal = bal,
                                    !.addr = solanaAddress[u]])
    /\ UNCHANGED << db, treasuryEnv, treasuryUsdc, payouts >>

\* GameTransaction.find({ userId, type in bets, timestamp >= now - 1000 }):
\* the requests of a run arrive within the same second, so every bet entry
\* of the account appended in the run is in the window.
RecentBets(led, u) ==
  {i \in 1..Len(led) : led[i].userId = u /\ led[i].type \in {"bet_win", "bet_loss"}}

\* The rate limit, then the draw.
BetRateLimit(p) ==
  /\ pc[p] = "bet_rate"
  /\ \E raw \in RandomSamples :
       LET l == loc[p]
           win == PlayerWins(raw)
       IN IF Cardinality(RecentBets(ledger, l.uid)) >= RATE_LIMIT
          THEN Finish(p, "RateLimited")
          ELSE Goto(p, "bet_saveUser",
                    [l EXCEPT !.win = win, !.raw = raw,
                              !.delta = IF win THEN l.amount ELSE 0 - l.amount])
  /\ UNCHANGED << db, treasuryEnv, treasuryUsdc, payouts, nreq >>

\* ------------------------------------------- POST /api/game/update-balance
\* The body's amount (positive or negative) and type, both chosen by the
\* caller.
UpdateAmounts == {0 - 6000, 6000}
UpdateTypes == {"win", "loss"}

Abs(x) == IF x < 0 THEN 0 - x ELSE x

\* The account is loaded; a negative amount must be covered by the balance.
UpdateBalanceBegin(p) ==
  \E u \in Users, amount \in UpdateAmounts, type \in UpdateTypes :
    /\ Arrive(p)
    /\ LET bal == gameBalance[u]
       IN IF amount < 0 /\ InsufficientBalance(bal, Abs(amount))
          THEN Finish(p, "InsufficientBalance")
          ELSE Goto(p, "upd_saveUser",
                    [IdleLoc EXCEPT !.op = "update", !.ep = "server", !.uid = u,
                                    !.amount = Abs(amount), !.bal = bal,
                                    !.addr = solanaAddress[u],
                                    !.win = (type = "win"), !.delta = amount])
    /\ UNCHANGED << db, treasuryEnv, treasuryUsdc, payouts >>

\* user.gameBalance += amount; await user.save()
UpdateBalanceSaveUser(p) ==
  /\ pc[p] = "upd_saveUser"
  /\ gameBalance' = [gameBalance EXCEPT ![loc[p].uid] = SavedBalance(loc[p])]
  /\ Goto(p, "upd_saveTx", loc[p])
  /\ UNCHANGED << solanaAddress, withdrawAddress, treasuryEnv, ledger,
               treasuryUsdc, payouts, nreq >>

\* The entry: type === 'win' ? 'bet_win' : 'bet_loss', amount Math.abs(amount),
\* no solanaTxHash.
UpdateBalanceSaveTx(p) ==
  /\ pc[p] = "upd_saveTx"
  /\ LET l == loc[p]
         type == IF l.win THEN "bet_win" ELSE "bet_loss"
     IN IF ~TxDuplicateKey(ledger, NoHash)
        THEN /\ ledger' = Append(ledger, TxDoc(l.uid, type, l.amount, NoHash))
             /\ Finish(p, "ok")
        ELSE /\ Finish(p, "ServerError")
             /\ UNCHANGED ledger
  /\ UNCHANGED << gameBalance, solanaAddress, withdrawAddress, treasuryEnv,
               treasuryUsdc, payouts, nreq >>

\* ------------------------------------------- POST /api/user/solana-address
\* The address in the body is a valid public key; the handler loads the
\* account, assigns the address and awaits the wallet's SOL balance.
SetAddressBegin(p) ==
  \E u \in Users, a \in Wallets :
    /\ Arrive(p)
    /\ Goto(p, "addr_save",
            [IdleLoc EXCEPT !.op = "setAddress", !.ep = "server", !.uid = u,
                            !.bal = gameBalance[u], !.addr = solanaAddress[u],
                            !.newAddr = a])
    /\ UNCHANGED << db, treasuryEnv, treasuryUsdc, payouts >>

\* await user.save(): only the modified paths (the address) are written.
SetAddressSave(p) ==
  /\ pc[p] = "addr_save"
  /\ solanaAddress' = [solanaAddress EXCEPT ![loc[p].uid] = loc[p].newAddr]
  /\ Finish(p, "ok")
  /\ UNCHANGED << gameBalance, withdrawAddress, treasuryEnv, ledger,
               treasuryUsdc, payouts, nreq >>

\* ------------------------------------------- user-update-settings function
SettingsAddresses == Wallets \cup {TreasuryOwner}

\* The address in the body is a valid public key; it is refused when
\* TREASURY_ADDRESS is configured and equal to it; then the account is loaded.
SettingsBegin(p) ==
  \E u \in Users, a \in SettingsAddresses :
    /\ Arrive(p)
    /\ IF treasuryEnv # NoAddr /\ a = treasuryEnv THEN Finish(p, "Validation")
       ELSE Goto(p, "set_save",
                 [IdleLoc EXCEPT !.op = "settings", !.ep = "netlify", !.uid = u,
                                 !.bal = gameBalance[u], !.addr = solanaAddress[u],
                                 !.newAddr = a])
    /\ UNCHANGED << db, treasuryEnv, treasuryUsdc, payouts >>

\* user.withdrawAddress = withdrawAddress; await user.save()
SettingsSave(p) ==
  /\ pc[p] = "set_save"
  /\ withdrawAddress' = [withdrawAddress EXCEPT ![loc[p].uid] = loc[p].newAddr]
  /\ Finish(p, "ok")
  /\ UNCHANGED << gameBalance, solanaAddress, treasuryEnv, ledger,
                  treasuryUsdc, payouts, nreq >>

\* ------------------------------------------------------------- reconcile
ReconcileEndpoints == {"server", "netlify"}

\* calculateBalanceFromHistory (server.js): the completed entries of the
\* account, folded by type over tokenAmount.
RECURSIVE CalculateBalanceFromHistory(_, _)
CalculateBalanceFromHistory(led, u) ==
  IF led = << >> THEN 0
  ELSE LET tx == led[Len(led)]
           rest == CalculateBalanceFromHistory(SubSeq(led, 1, Len(led) - 1), u)
       IN IF tx.userId # u \/ tx.status # "completed" THEN rest
          ELSE CASE tx.type = "deposit" -> rest + tx.tokenAmount
                 [] tx.type = "withdraw" -> rest - tx.tokenAmount
                 [] tx.type = "bet_win" -> rest + tx.tokenAmount
                 [] tx.type = "bet_loss" -> rest - tx.tokenAmount
                 [] OTHER -> rest

\* user-reconcile-balance function: the same fold over amount.
RECURSIVE ReconcileFold(_, _)
ReconcileFold(led, u) ==
  IF led = << >> THEN 0
  ELSE LET tx == led[Len(led)]
           rest == ReconcileFold(SubSeq(led, 1, Len(led) - 1), u)
       IN IF tx.userId # u \/ tx.status # "completed" THEN rest
          ELSE CASE tx.type = "deposit" -> rest + tx.amount
                 [] tx.type = "withdraw" -> rest - tx.amount
                 [] tx.type = "bet_win" -> rest + tx.amount
                 [] tx.type = "bet_loss" -> rest - tx.amount
                 [] OTHER -> rest

\* The account is loaded; server.js refuses an account without an address.
ReconcileBegin(p) ==
  \E u \in Users, ep \in ReconcileEndpoints :
    /\ Arrive(p)
    /\ IF ep = "server" /\ solanaAddress[u] = NoAddr THEN Finish(p, "Unbound")
       ELSE Goto(p, "rec_find",
                 [IdleLoc EXCEPT !.op = "reconcile", !.ep = ep, !.uid = u,
                                 !.bal = gameBalance[u], !.addr = solanaAddress[u]])
    /\ UNCHANGED << db, treasuryEnv, treasuryUsdc, payouts >>

\* GameTransaction.find(...) answers and the entries are folded. The
\* function saves only when the result differs from the loaded balance.
ReconcileFind(p) ==
  /\ pc[p] = "rec_find"
  /\ LET l == loc[p]
         calc == IF l.ep = "server" THEN CalculateBalanceFromHistory(ledger, l.uid)
                 ELSE ReconcileFold(ledger, l.uid)
         m == [l EXCEPT !.amount = calc, !.delta = calc - l.bal]
     IN IF l.ep = "netlify" /\ l.bal = calc THEN Finish(p, "ok")
        ELSE Goto(p, "rec_save", m)
  /\ UNCHANGED << db, treasuryEnv, treasuryUsdc, payouts, nreq >>

\* GameTransaction.find(...) rejects: calculateBalanceFromHistory catches
\* the error and returns 0; the function's handler answers 500.
ReconcileFindFails(p) ==
  /\ pc[p] = "rec_find"
  /\ LET l == loc[p]
     IN IF l.ep = "server"
        THEN Goto(p, "rec_save",
                  [l EXCEPT !.amount = 0, !.delta = 0 - l.bal, !.readFailed = TRUE])
        ELSE Finish(p, "ServerError")
  /\ UNCHANGED << db, treasuryEnv, treasuryUsdc, payouts, nreq >>

\* Variant used to test the properties below: the balance is written with an
\* update that has no account filter.
ReconcileSaveAll(p) ==
  /\ pc[p] = "rec_save"
  /\ gameBalance' = [u \in Users |-> SavedBalance(loc[p])]
  /\ Finish(p, "ok")
  /\ UNCHANGED << solanaAddress, withdrawAddress, treasuryEnv, ledger,
               treasuryUsdc, payouts, nreq >>

\* user.gameBalance = calculatedBalance; await user.save(). An assignment
\* of the value the document already has modifies nothing.
ReconcileSave(p) ==
  /\ pc[p] = "rec_save"
  /\ IF loc[p].delta = 0 THEN UNCHANGED gameBalance
     ELSE gameBalance' = [gameBalance EXCEPT ![loc[p].uid] = SavedBalance(loc[p])]
  /\ Finish(p, "ok")
  /\ UNCHANGED << solanaAddress, withdrawAddress, treasuryEnv, ledger,
               treasuryUsdc, payouts, nreq >>

\* ------------------------------------------ POST /api/deposit, autoUpdate
\* A deposit request with autoUpdate set and no signature: the handler
\* awaits User.findById.
AutoRescanBegin(p) ==
  \E u \in Users, ep \in DepositEndpoints :
    /\ Arrive(p)
    /\ Goto(p, "scan_load",
            [IdleLoc EXCEPT !.op = "rescan", !.ep = ep, !.uid = u])
    /\ UNCHANGED << db, treasuryEnv, treasuryUsdc, payouts >>

\* server.js: an account with an address is reconciled (the same calls as
\* POST /api/user/reconcile-balance), one without falls through to the
\* manual path, which requires a signature. The deposit function answers
\* an account with an address with "scan initiated" and does nothing else.
AutoRescanLoad(p) ==
  /\ pc[p] = "scan_load"
  /\ LET l == loc[p]
         m == [l EXCEPT !.bal = gameBalance[l.uid], !.addr = solanaAddress[l.uid]]
     IN IF solanaAddress[l.uid] = NoAddr
        THEN Finish(p, IF l.ep = "server" THEN "Validation" ELSE "Unbound")
        ELSE IF l.ep = "server" THEN Goto(p, "rec_find", m)
        ELSE Finish(p, "ok")
  /\ UNCHANGED << db, treasuryEnv, treasuryUsdc, payouts, nreq >>

\* ------------------------------------------ scanForNewDeposits (dice3d.js)
\* getSignaturesForAddress(treasury's USDC account): the transfers the
\* treasury took part in, the most recent first.
ScanSignatures == << ChainSig(2), ChainSig(1) >>

\* The loop goes on with the next signature, or the scan returns. (Run by
\* the timer the scan has no caller; /api/admin/trigger-deposit-scan answers
\* with success.)
ScanAdvance(p) ==
  LET l == loc[p]
  IN IF l.i < Len(ScanSignatures)
     THEN Goto(p, "bg_find",
               [IdleLoc EXCEPT !.op = "scan", !.ep = "dice3d", !.i = l.i + 1,
                               !.sig = ScanSignatures[l.i + 1]])
     ELSE Finish(p, "ok")

\* The slot of the background task.
ScanProc == ProcOrder[Len(ProcOrder)]

\* setInterval fires (or the trigger endpoint is called): the signatures
\* are listed and the loop starts.
ScanBegin(p) ==
  /\ pc[p] = "idle"
  /\ nreq < MaxReq
  /\ nreq' = nreq + 1
  /\ Goto(p, "bg_find",
          [IdleLoc EXCEPT !.op = "scan", !.ep = "dice3d", !.i = 1,
                          !.sig = ScanSignatures[1]])
  /\ UNCHANGED << db, treasuryEnv, treasuryUsdc, payouts >>

\* Duplicate check (findOne), then the transaction is fetched and analysed.
ScanFind(p) ==
  /\ pc[p] = "bg_find"
  /\ LET l == loc[p]
         v == VerifyScan(l.sig)
     IN IF TxFindOne(ledger, l.sig) \/ v.status # "ok" THEN ScanAdvance(p)
        ELSE Goto(p, "bg_user", [l EXCEPT !.sender = v.sender, !.delta = v.delta])
  /\ UNCHANGED << db, treasuryEnv, treasuryUsdc, payouts, nreq >>

\* User.findOne({ solanaAddress: senderAddress })
ScanLoadUser(p) ==
  /\ pc[p] = "bg_user"
  /\ LET l == loc[p]
     IN IF UsersAt(l.sender) = {} THEN ScanAdvance(p)
        ELSE LET u == FindUserByAddress(l.sender)
             IN Goto(p, "bg_saveUser",
                     [l EXCEPT !.uid = u, !.bal = gameBalance[u],
                               !.addr = solanaAddress[u]])
  /\ UNCHANGED << db, treasuryEnv, treasuryUsdc, payouts, nreq >>

\* user.gameBalance += gameTokens; await user.save()
ScanSaveUser(p) ==
  /\ pc[p] = "bg_saveUser"
  /\ gameBalance' = [gameBalance EXCEPT ![loc[p].uid] = SavedBalance(loc[p])]
  /\ Goto(p, "bg_saveTx", loc[p])
  /\ UNCHANGED << solanaAddress, withdrawAddress, treasuryEnv, ledger,
               treasuryUsdc, payouts, nreq >>

\* await dbTransaction.save(): a refused insert throws into the catch block
\* of the loop body, which logs the error; the loop goes on.
ScanSaveTx(p) ==
  /\ pc[p] = "bg_saveTx"
  /\ LET l == loc[p]
     IN /\ ledger' = IF TxDuplicateKey(ledger, l.sig) THEN ledger
                     ELSE Append(ledger, TxDoc(l.uid, "deposit", l.delta, l.sig))
        /\ ScanAdvance(p)
  /\ UNCHANGED << gameBalance, solanaAddress, withdrawAddress, treasuryEnv,
               treasuryUsdc, payouts, nreq >>

\* ---------------------------------------------------------- storage error
SavePcs == {"dep_saveUser", "dep_saveTx", "adm_saveUser", "adm_saveTx",
            "wd_saveUser", "wd_saveTx", "bet_saveUser", "bet_saveTx",
            "addr_save", "rec_save", "set_save", "upd_saveUser", "upd_saveTx"}

\* A save() rejects (connection lost, write timeout): nothing is written,
\* the handler's catch block answers 500.
StorageError(p) ==
  /\ pc[p] \in SavePcs
  /\ Finish(p, "ServerError")
  /\ UNCHANGED << db, treasuryEnv, treasuryUsdc, payouts, nreq >>

\* ------------------------------------------------------------------ Next
Step(p) ==
  \/ DepositBegin(p)
  \/ DepositFind(p)
  \/ BuyTokensBegin(p)
  \/ BuyTokensFind(p)
  \/ DepositSaveUser(p)
  \/ DepositSaveTx(p)
  \/ AdminCreditBegin(p)
  \/ AdminCreditSaveUser(p)
  \/ AdminCreditSaveTx(p)
  \/ WithdrawBegin(p)
  \/ WithdrawPool(p)
  \/ WithdrawTransfer(p)
  \/ WithdrawTransferFails(p)
  \/ WithdrawSaveUser(p)
  \/ WithdrawSaveTx(p)
  \/ BetBegin(p)
  \/ BetSaveUser(p)
  \/ BetSaveTx(p)
  \/ StorageError(p)

Next == \E p \in Procs : Step(p)

Spec == Init /\ [][Next]_vars

\* One request at a time: only the first slot is ever used.
NextSeq == Step(ProcOrder[1])

SpecSeq == Init /\ [][NextSeq]_vars

\* The handlers above together with those that rewrite an account without
\* moving funds: the address update and the two reconciles.
StepAll(p) ==
  \/ Step(p)
  \/ DepositBeginOdd(p)
  \/ SetAddressBegin(p)
  \/ SetAddressSave(p)
  \/ ReconcileBegin(p)
  \/ ReconcileFind(p)
  \/ ReconcileFindFails(p)
  \/ ReconcileSave(p)
  \/ BetBeginServer(p)
  \/ BetRateLimit(p)
  \/ SettingsBegin(p)
  \/ SettingsSave(p)
  \/ AutoRescanBegin(p)
  \/ AutoRescanLoad(p)
  \/ WithdrawBeginOdd(p)

NextAll == \E p \in Procs : StepAll(p)

SpecAll == Init /\ [][NextAll]_vars

\* ... one request at a time.
NextAllSeq == StepAll(ProcOrder[1])

SpecAllSeq == Init /\ [][NextAllSeq]_vars

\* Only the manual deposit endpoints (server.js and the deposit function).
NextDeposit ==
  \E p \in Procs :
    \/ DepositBegin(p)
    \/ DepositBeginOdd(p)
    \/ DepositFind(p)
    \/ DepositSaveUser(p)
    \/ DepositSaveTx(p)

SpecDeposit == Init /\ [][NextDeposit]_vars

\* ... with any signature the chain knows.
NextDepositForeign ==
  \/ NextDeposit
  \/ \E p \in Procs : DepositBeginForeign(p)

SpecDepositForeign == Init /\ [][NextDepositForeign]_vars

\* Only withdrawals, and every save succeeds.
NextWithdraw ==
  \E p \in Procs :
    \/ WithdrawBegin(p)
    \/ WithdrawPool(p)
    \/ WithdrawTransfer(p)
    \/ WithdrawTransferFails(p)
    \/ WithdrawSaveUser(p)
    \/ WithdrawSaveTx(p)

SpecWithdraw == Init /\ [][NextWithdraw]_vars

\* Manual deposits and bets, and every save succeeds.
NextDepositBet ==
  \E p \in Procs :
    \/ DepositBegin(p)
    \/ DepositFind(p)
    \/ DepositSaveUser(p)
    \/ DepositSaveTx(p)
    \/ BetBegin(p)
    \/ BetSaveUser(p)
    \/ BetSaveTx(p)

SpecDepositBet == Init /\ [][NextDepositBet]_vars

\* Manual deposits and bets on both bet endpoints, one request at a time,
\* and every save succeeds.
NextDepositBetSeq ==
  LET p == ProcOrder[1]
  IN \/ DepositBegin(p)
     \/ DepositFind(p)
     \/ DepositSaveUser(p)
     \/ DepositSaveTx(p)
     \/ BetBegin(p)
     \/ BetBeginServer(p)
     \/ BetRateLimit(p)
     \/ BetSaveUser(p)
     \/ BetSaveTx(p)

SpecDepositBetSeq == Init /\ [][NextDepositBetSeq]_vars

\* The settings function and withdrawals, and every save succeeds.
NextSettings ==
  \E p \in Procs :
    \/ SettingsBegin(p)
    \/ SettingsSave(p)
    \/ WithdrawBegin(p)
    \/ WithdrawPool(p)
    \/ WithdrawTransfer(p)
    \/ WithdrawTransferFails(p)
    \/ WithdrawSaveUser(p)
    \/ WithdrawSaveTx(p)

SpecSettings == Init /\ [][NextSettings]_vars

\* ... in any deployment.
SpecSettingsAnyEnv == InitAnyEnv /\ [][NextSettings]_vars

\* Manual deposits and auto-rescans, one request at a time; every read and
\* every save succeeds.
NextRescanSeq ==
  LET p == ProcOrder[1]
  IN \/ DepositBegin(p)
     \/ DepositBeginOdd(p)
     \/ DepositFind(p)
     \/ DepositSaveUser(p)
     \/ DepositSaveTx(p)
     \/ AutoRescanBegin(p)
     \/ AutoRescanLoad(p)
     \/ ReconcileFind(p)
     \/ ReconcileSave(p)

SpecRescanSeq == Init /\ [][NextRescanSeq]_vars

\* Withdrawals and bets on every endpoint, and every save succeeds.
NextWithdrawBet ==
  \E p \in Procs :
    \/ WithdrawBegin(p)
    \/ WithdrawBeginOdd(p)
    \/ WithdrawPool(p)
    \/ WithdrawTransfer(p)
    \/ WithdrawTransferFails(p)
    \/ WithdrawSaveUser(p)
    \/ WithdrawSaveTx(p)
    \/ BetBegin(p)
    \/ BetBeginServer(p)
    \/ BetRateLimit(p)
    \/ BetSaveUser(p)
    \/ BetSaveTx(p)

SpecWithdrawBet == Init /\ [][NextWithdrawBet]_vars

\* Manual deposits, withdrawals and bets, and every save succeeds.
NextFunds ==
  \E p \in Procs :
    \/ DepositBegin(p)
    \/ DepositFind(p)
    \/ DepositSaveUser(p)
    \/ DepositSaveTx(p)
    \/ WithdrawBegin(p)
    \/ WithdrawPool(p)
    \/ WithdrawTransfer(p)
    \/ WithdrawTransferFails(p)
    \/ WithdrawSaveUser(p)
    \/ WithdrawSaveTx(p)
    \/ BetBegin(p)
    \/ BetSaveUser(p)
    \/ BetSaveTx(p)

SpecFunds == Init /\ [][NextFunds]_vars

\* Only the legacy update-balance endpoint, and every save succeeds.
NextUpdateBalance ==
  \E p \in Procs :
    \/ UpdateBalanceBegin(p)
    \/ UpdateBalanceSaveUser(p)
    \/ UpdateBalanceSaveTx(p)

SpecUpdateBalance == Init /\ [][NextUpdateBalance]_vars

\* dice3d.js: deposit requests, one at a time, and the background scan in
\* its own slot; every save succeeds unless the unique index refuses it.
NextScan ==
  \/ Dice3dDepositBegin(ProcOrder[1])
  \/ Dice3dDepositFind(ProcOrder[1])
  \/ DepositSaveUser(ProcOrder[1])
  \/ DepositSaveTx(ProcOrder[1])
  \/ ScanBegin(ScanProc)
  \/ ScanFind(ScanProc)
  \/ ScanLoadUser(ScanProc)
  \/ ScanSaveUser(ScanProc)
  \/ ScanSaveTx(ScanProc)

SpecScan == Init /\ [][NextScan]_vars

\* The handlers that move funds or rewrite an account: manual deposits,
\* auto-rescans, withdrawals, bets, reconciles and the settings function;
\* every save succeeds.
NextLedgerOps ==
  \E p \in Procs :
    \/ DepositBegin(p)
    \/ DepositFind(p)
    \/ DepositSaveUser(p)
    \/ DepositSaveTx(p)
    \/ AutoRescanBegin(p)
    \/ AutoRescanLoad(p)
    \/ WithdrawBegin(p)
    \/ WithdrawPool(p)
    \/ WithdrawTransfer(p)
    \/ WithdrawTransferFails(p)
    \/ WithdrawSaveUser(p)
    \/ WithdrawSaveTx(p)
    \/ BetBegin(p)
    \/ BetSaveUser(p)
    \/ BetSaveTx(p)
    \/ ReconcileBegin(p)
    \/ ReconcileFind(p)
    \/ ReconcileFindFails(p)
    \/ ReconcileSave(p)
    \/ SettingsBegin(p)
    \/ SettingsSave(p)

SpecLedgerOps == Init /\ [][NextLedgerOps]_vars

\* ============================================================ properties
HasRef(r) == \E i \in 1..Len(ledger) : ledger[i].solanaTxHash = r
AllIdle == \A p \in Procs : pc[p] = "idle"

RECURSIVE SumBalances(_)
SumBalances(us) ==
  IF us = {} THEN 0
  ELSE LET u == CHOOSE x \in us : TRUE
       IN gameBalance[u] + SumBalances(us \ {u})

RECURSIVE SumDeposits(_)
SumDeposits(led) ==
  IF led = << >> THEN 0
  ELSE (IF Head(led).type = "deposit" THEN Head(led).tokenAmount ELSE 0)
       + SumDeposits(Tail(led))

\* C1: a deposit request whose duplicate check runs when the ledger already
\* holds an entry with its reference (the earlier verification has completed)
\* is answered with a conflict, and that step changes no balance, no bound
\* address and no ledger entry.
C1_LaterDuplicateRejected ==
  [][\A p \in Procs :
       (pc[p] = "dep_find" /\ pc'[p] # "dep_find" /\ HasRef(loc[p].sig))
         => (resp' = Reply(p, "Conflict") /\ db' = db)]_vars

\* A deposit of sig 1 completed in this run, and a later request was answered
\* with a conflict.
C1_Witness ==
  /\ resp.status = "Conflict"
  /\ nreq = 2
  /\ Len(ledger) = 2
  /\ ledger[2].solanaTxHash = ChainSig(1)

\* C2: when the manual deposit endpoints are the only writers and no request
\* is in flight any more, the total added to the balances equals the total
\* of the deposit entries appended: each reference was credited once, with
\* one entry.
C2_ConcurrentSameRefCreditedOnce ==
  AllIdle =>
    SumBalances(Users) - (STARTING_BALANCE + FirstDeposit.tokenAmount)
      = SumDeposits(ledger) - FirstDeposit.tokenAmount

\* C3: no two ledger entries carry the same non-null solanaTxHash.
C3_UniqueExternalRef ==
  \A i, j \in 1..Len(ledger) :
    (i # j /\ ledger[i].solanaTxHash = ledger[j].solanaTxHash)
      => ledger[i].solanaTxHash = NoHash

\* An insert with a hash the ledger already holds was refused.
C3_Witness ==
  /\ resp.status = "DuplicateKey"
  /\ \E i \in 1..Len(ledger) : ledger[i].solanaTxHash # NoHash

\* ------------------------------------------------------------------------
RECURSIVE PaidOut(_, _)
PaidOut(pays, u) ==
  IF pays = << >> THEN 0
  ELSE (IF Head(pays).uid = u THEN Head(pays).amount ELSE 0) + PaidOut(Tail(pays), u)

Signed(e) ==
  IF e.type \in {"deposit", "bet_win"} THEN e.tokenAmount ELSE 0 - e.tokenAmount

RECURSIVE Fold(_, _)
Fold(led, u) ==
  IF led = << >> THEN 0
  ELSE (IF Head(led).userId = u THEN Signed(Head(led)) ELSE 0) + Fold(Tail(led), u)

\* The wallet that really sent the USDC of a transaction.
ChainSender(sig) == ExtractFirst(ChainTx(sig).rows).sender

EntriesFor(h) == {i \in 1..Len(ledger) : ledger[i].solanaTxHash = h}

\* C4: with withdrawals as the only writers, no balance is ever negative
\* and the total paid out to an account never exceeds the balance it held
\* before the requests.
C4_ConcurrentWithdrawalsBounded ==
  \A u \in Users :
    /\ gameBalance[u] >= 0
    /\ PaidOut(payouts, u) <= InitialBalance(u)

\* C5: with manual deposits and bets as the only writers, once every request
\* has ended with its entry appended, each balance equals its initial value
\* plus the deposits credited and the bets' net change.
C5_NoLostUpdate ==
  (AllIdle /\ Len(ledger) = 1 + nreq) =>
    \A u \in Users :
      gameBalance[u] = InitialBalance(u) + Fold(ledger, u) - Fold(<< FirstDeposit >>, u)

\* C6: no balance is ever negative, and a request answered with
\* "insufficient balance" has written nothing.
C6_NeverNegative ==
  [][/\ \A u \in Users : gameBalance'[u] >= 0
     /\ resp'.status = "InsufficientBalance" => db' = db]_vars

\* A debit was applied, and a later request exceeding what was left was
\* rejected.
C6_Witness ==
  /\ resp.status = "InsufficientBalance"
  /\ \E u \in Users : gameBalance[u] < InitialBalance(u) /\ gameBalance[u] < 6000

\* C7: up to and including the payout call a withdrawal writes neither a
\* balance nor a ledger entry, and when the call fails the request ends with
\* an external-transfer failure and nothing has moved.
C7_FailedPayoutNoChange ==
  [][\A p \in Procs :
       (pc'[p] # pc[p] /\ (pc[p] \in {"wd_pool", "wd_transfer"} \/ pc'[p] = "wd_pool"))
         => /\ db' = db
            /\ (pc[p] = "wd_transfer" /\ pc'[p] = "idle")
                 => /\ resp' = Reply(p, "ExternalTransferFailed")
                    /\ payouts' = payouts
                    /\ treasuryUsdc' = treasuryUsdc]_vars

\* A withdrawal ended with an external-transfer failure.
C7_Witness ==
  /\ resp.status = "ExternalTransferFailed"
  /\ payouts = << >>
  /\ gameBalance["u2"] = InitialBalance("u2")

\* C8: once the handler that issued a payout has returned, the ledger holds
\* exactly one withdraw entry with the payout's signature and amount.
C8_PayoutRecordedOnce ==
  \A i \in 1..Len(payouts) :
    (\A p \in Procs : loc[p].sig # payouts[i].sig) =>
      /\ Cardinality(EntriesFor(payouts[i].sig)) = 1
      /\ \A j \in EntriesFor(payouts[i].sig) :
           ledger[j].type = "withdraw" /\ ledger[j].amount = payouts[i].amount

\* C9: when the insert of the ledger entry fails (duplicate key or a
\* storage error), the account's balance and address are what they were
\* when the handler loaded the account.
C9_FailedAppendNoChange ==
  [][\A p \in Procs :
       (pc[p] \in {"dep_saveTx", "wd_saveTx", "bet_saveTx"} /\ pc'[p] = "idle"
        /\ ledger' = ledger)
         => /\ gameBalance'[loc[p].uid] = loc[p].bal
            /\ solanaAddress'[loc[p].uid] = loc[p].addr]_vars

\* C10: a deposit request for an account bound to an address other than the
\* wallet that sent the transaction's USDC never writes anything.
C10_ForeignSenderRejected ==
  [][\A p \in Procs :
       (loc[p].op = "deposit" /\ pc'[p] # pc[p] /\ loc[p].addr # NoAddr
        /\ ChainSender(loc[p].sig) # loc[p].addr)
         => db' = db]_vars

\* C11: an address, once set on an account, is never replaced by another.
C11_BindingImmutable ==
  [][\A u \in Users :
       solanaAddress[u] # NoAddr => solanaAddress'[u] = solanaAddress[u]]_vars

\* The signed sum of an account's completed entries.
RECURSIVE CompletedFold(_, _)
CompletedFold(led, u) ==
  IF led = << >> THEN 0
  ELSE (IF Head(led).userId = u /\ Head(led).status = "completed"
        THEN Signed(Head(led)) ELSE 0) + CompletedFold(Tail(led), u)

\* The step with which a request of kind op answers its caller with success.
Completes(p, op) ==
  loc[p].op = op /\ pc[p] # "idle" /\ pc'[p] = "idle" /\ resp' = Reply(p, "ok")

\* C12: when a reconcile has completed, the account's balance equals the
\* signed sum of its completed ledger entries.
C12_ReconcileEqualsFold ==
  [][\A p \in Procs :
       Completes(p, "reconcile")
         => gameBalance'[loc[p].uid] = CompletedFold(ledger', loc[p].uid)]_vars

\* C13: a reconcile of an account whose balance already is the signed sum of
\* its entries (as a reconcile leaves it, nothing appended since) reports
\* equal previous and new balances and changes nothing.
C13_ReconcileIdempotent ==
  [][\A p \in Procs :
       (Completes(p, "reconcile")
        /\ loc[p].bal = CompletedFold(ledger, loc[p].uid))
         => /\ db' = db
            /\ pc[p] = "rec_save" => loc[p].amount = loc[p].bal]_vars

\* C14: no withdrawal gets past the balance check with an amount above the
\* balance it loaded, and the request answered "insufficient balance" has
\* appended no entry, sent no payout and changed no balance.
C14_OverBalanceWithdrawalRejected ==
  [][/\ \A p \in Procs : loc'[p].op = "withdraw" => loc'[p].amount <= loc'[p].bal
     /\ resp'.status = "InsufficientBalance"
          => (db' = db /\ payouts' = payouts /\ treasuryUsdc' = treasuryUsdc)]_vars

\* After one withdrawal was paid, a second one exceeding what is left was
\* rejected.
C14_Witness ==
  /\ resp.status = "InsufficientBalance"
  /\ Len(payouts) = 1
  /\ \E u \in Users : gameBalance[u] = InitialBalance(u) - payouts[1].amount

\* C15: a withdrawal within the balance whose amount exceeds what the
\* treasury holds is answered with the pooled-funds error, not the
\* insufficient-balance error; no payout is sent, nothing is written.
C15_PoolShortfallRejected ==
  [][\A p \in Procs :
       (pc[p] = "wd_pool" /\ pc'[p] # "wd_pool" /\ treasuryUsdc < loc[p].amount)
         => /\ resp' = Reply(p, "InsufficientPoolFunds")
            /\ db' = db
            /\ payouts' = payouts
            /\ treasuryUsdc' = treasuryUsdc]_vars

\* A withdrawal was refused for lack of pooled funds.
C15_Witness ==
  /\ resp.status = "InsufficientPoolFunds"
  /\ \E u \in Users : gameBalance[u] > treasuryUsdc

\* C16: a withdrawal whose payout succeeded writes a balance lower than the
\* stored one by exactly its amount, then appends one completed withdraw
\* entry carrying that amount and the payout's signature, and answers ok.
C16_WithdrawalDebitsAndRecords ==
  [][\A p \in Procs :
       (pc[p] \in {"wd_saveUser", "wd_saveTx"} /\ pc'[p] # pc[p])
         => LET l == loc[p]
            IN /\ pc[p] = "wd_saveUser"
                    => /\ pc'[p] = "wd_saveTx"
                       /\ gameBalance'[l.uid] = gameBalance[l.uid] - l.amount
                       /\ ledger' = ledger
               /\ pc[p] = "wd_saveTx"
                    => /\ resp' = Reply(p, "ok")
                       /\ gameBalance' = gameBalance
                       /\ Len(ledger') = Len(ledger) + 1
                       /\ ledger'[Len(ledger')].type = "withdraw"
                       /\ ledger'[Len(ledger')].status = "completed"
                       /\ ledger'[Len(ledger')].amount = l.amount
                       /\ ledger'[Len(ledger')].solanaTxHash = l.sig]_vars

\* The amount a transaction moved out of the sender's USDC account, and the
\* fee of the endpoint a deposit request went to.
ChainAmount(sig) == ExtractFirst(ChainTx(sig).rows).amount
FeeOf(ep) == IF ep = "server" THEN DEPOSIT_FEE ELSE NETLIFY_DEPOSIT_FEE

\* C17: a verified deposit of a transaction that moved t, at an endpoint
\* with fee f, raises the stored balance by exactly max(0, t - f) and
\* appends one completed deposit entry with that amount.
C17_DepositCreditsAmountMinusFee ==
  [][\A p \in Procs :
       (loc[p].op = "deposit" /\ loc[p].ep \in DepositEndpoints
        /\ pc[p] \in {"dep_saveUser", "dep_saveTx"} /\ pc'[p] # pc[p])
         => LET l == loc[p]
                credited == Max0(ChainAmount(l.sig) - FeeOf(l.ep))
            IN /\ pc[p] = "dep_saveUser"
                    => /\ gameBalance'[l.uid] = gameBalance[l.uid] + credited
                       /\ gameBalance'[l.uid] >= gameBalance[l.uid]
               /\ (pc[p] = "dep_saveTx" /\ resp' = Reply(p, "ok"))
                    => /\ Len(ledger') = Len(ledger) + 1
                       /\ ledger'[Len(ledger')].type = "deposit"
                       /\ ledger'[Len(ledger')].status = "completed"
                       /\ ledger'[Len(ledger')].amount = credited]_vars

\* Why the verification of a transaction fails before any sender check: the
\* node does not know it, it failed on chain, or no account in it lost USDC.
LostUsdc(sig) ==
  \E i \in 1..Len(ChainTx(sig).rows) :
    LET r == ChainTx(sig).rows[i] IN r.mint = USDC_MINT /\ r.pre > r.post
VerificationFailure(sig) ==
  IF ~ChainTx(sig).found THEN "ExternalNotFound"
  ELSE IF ChainTx(sig).err THEN "ExternalTxFailed"
  ELSE IF ~LostUsdc(sig) THEN "NoMatchingTransfer"
  ELSE "none"
VerificationFailures == {"ExternalNotFound", "ExternalTxFailed", "NoMatchingTransfer"}

\* C18: a deposit request for a transaction that is not found, failed on
\* chain or holds no USDC transfer ends at its verification step with the
\* matching error, and a request ending with one of these errors leaves
\* every balance, every address and the ledger as they were.
C18_FailedVerificationNoChange ==
  [][/\ \A p \in Procs :
          (pc[p] = "dep_find" /\ pc'[p] # "dep_find" /\ ~HasRef(loc[p].sig)
           /\ VerificationFailure(loc[p].sig) # "none")
            => /\ resp' = Reply(p, VerificationFailure(loc[p].sig))
               /\ pc'[p] = "idle"
               /\ db' = db
     /\ resp'.status \in VerificationFailures => db' = db]_vars

\* After a deposit was credited, the same account submitted a transaction
\* that failed on chain and was refused.
C18_Witness ==
  /\ resp.status = "ExternalTxFailed"
  /\ Len(ledger) = 2
  /\ gameBalance["u1"] > InitialBalance("u1")

\* C19: a bet that passed its checks raises the stored balance by its stake
\* when the draw is below the threshold and lowers it by the stake
\* otherwise, then appends one completed entry with amount = stake, of type
\* bet_win in the first case and bet_loss in the second, and answers ok.
C19_BetSettlesAndRecords ==
  [][\A p \in Procs :
       (loc[p].op = "bet" /\ pc[p] \in {"bet_saveUser", "bet_saveTx"}
        /\ pc'[p] # pc[p])
         => LET l == loc[p]
            IN /\ pc[p] = "bet_saveUser"
                    => /\ pc'[p] = "bet_saveTx"
                       /\ gameBalance'[l.uid]
                            = gameBalance[l.uid] + (IF l.win THEN l.amount ELSE 0 - l.amount)
               /\ pc[p] = "bet_saveTx"
                    => /\ resp' = Reply(p, "ok")
                       /\ Len(ledger') = Len(ledger) + 1
                       /\ ledger'[Len(ledger')].type
                            = (IF l.win THEN "bet_win" ELSE "bet_loss")
                       /\ ledger'[Len(ledger')].status = "completed"
                       /\ ledger'[Len(ledger')].amount = l.amount]_vars

\* C21: every payout goes to the account's withdrawAddress when one is
\* stored, and to its solanaAddress otherwise.
C21_PayoutAddressPreferred ==
  [][Len(payouts') > Len(payouts)
       => LET pay == payouts'[Len(payouts')]
          IN pay.to = (IF withdrawAddress[pay.uid] # NoAddr
                       THEN withdrawAddress[pay.uid]
                       ELSE solanaAddress[pay.uid])]_vars

\* C22: with the settings function and withdrawals as the only handlers, a
\* request is answered Unbound only when some account has neither a
\* solanaAddress nor a withdrawAddress, and that answer writes nothing and
\* sends no payout.
C22_UnboundOnlyWithoutAnyAddress ==
  [][resp'.status = "Unbound"
       => /\ \E u \in Users : solanaAddress[u] = NoAddr /\ withdrawAddress[u] = NoAddr
          /\ db' = db
          /\ payouts' = payouts
          /\ treasuryUsdc' = treasuryUsdc]_vars

\* C23: no account's withdrawAddress is the treasury's address.
C23_PayoutAddressNeverTreasury ==
  \A u \in Users : withdrawAddress[u] # TreasuryOwner

\* C24: when an auto-rescan of an account that has an address has answered
\* with success, the account's balance equals the signed sum of its
\* completed entries, and the request has appended no entry and changed no
\* address.
C24_AutoRescanIsReconcile ==
  [][\A p \in Procs :
       Completes(p, "rescan")
         => /\ gameBalance'[loc[p].uid] = CompletedFold(ledger', loc[p].uid)
            /\ ledger' = ledger
            /\ solanaAddress' = solanaAddress]_vars

\* C25: when a deposit of an account that already had an address has been
\* verified and recorded, the account's balance equals the signed sum of
\* its completed entries.
C25_BalanceIsFoldAfterDeposit ==
  [][\A p \in Procs :
       (Completes(p, "deposit") /\ loc[p].addr # NoAddr)
         => gameBalance'[loc[p].uid] = CompletedFold(ledger', loc[p].uid)]_vars

\* C26: the success response of a manual deposit reports a first deposit
\* exactly when the account had no address when the handler loaded it.
C26_FirstDepositReported ==
  [][\A p \in Procs :
       (Completes(p, "deposit") /\ loc[p].ep \in DepositEndpoints)
         => firstReport' = (IF loc[p].addr = NoAddr THEN "first" ELSE "notFirst")]_vars

\* The largest amount a request of a kind may carry.
MaxAmount(op) == IF op = "bet" THEN MAX_BET ELSE MAX_WITHDRAW

\* C27: no withdrawal and no bet gets past its validation with an amount
\* that is not positive, exceeds the maximum or has more than two decimals
\* (amounts are in thousandths), and a request answered with a validation
\* error has written nothing and sent no payout.
C27_InvalidAmountRejected ==
  [][/\ \A p \in Procs :
          loc'[p].op \in {"withdraw", "bet"}
            => /\ loc'[p].amount > 0
               /\ loc'[p].amount <= MaxAmount(loc'[p].op)
               /\ loc'[p].amount % 10 = 0
     /\ resp'.status = "Validation"
          => (db' = db /\ payouts' = payouts /\ treasuryUsdc' = treasuryUsdc)]_vars

\* a < b for 32-bit values given as 16-bit halves.
RawLess(a, b) == a[1] < b[1] \/ (a[1] = b[1] /\ a[2] < b[2])

\* C28: the draw of every bet being settled, raw / 0xFFFFFFFF, is below 1,
\* i.e. its numerator is below its divisor.
C28_DrawBelowOne ==
  \A p \in Procs :
    (loc[p].op = "bet" /\ pc[p] \in {"bet_saveUser", "bet_saveTx"})
      => RawLess(loc[p].raw, DRAW_DIVISOR)

\* C29: a reconcile or auto-rescan whose read of the ledger failed writes
\* nothing, at the failing step or later, and ends with an error.
C29_ReadFailureLeavesBalance ==
  [][\A p \in Procs :
       /\ (pc[p] = "rec_find" /\ resp' = Reply(p, "ServerError")) => db' = db
       /\ (loc[p].readFailed /\ pc'[p] # pc[p])
            => (db' = db /\ resp' = Reply(p, "ServerError"))]_vars

\* C30: with every save succeeding, the insert of a bet's entry, which has
\* no solanaTxHash, is never refused, whatever entries without one the
\* ledger already holds: it appends the entry and the bet answers ok.
C30_NullRefAppendNeverRefused ==
  [][\A p \in Procs :
       (pc[p] = "bet_saveTx" /\ pc'[p] = "idle")
         => /\ resp' = Reply(p, "ok")
            /\ ledger' # ledger
            /\ ledger'[Len(ledger')].solanaTxHash = NoHash]_vars

\* C31: no step of any handler modifies or removes a ledger entry: the
\* ledger before a step is a prefix of the ledger after it.
C31_LedgerAppendOnly ==
  [][/\ Len(ledger') >= Len(ledger)
     /\ SubSeq(ledger', 1, Len(ledger)) = ledger]_vars

\* An entry was appended for u1 and a reconcile of u1 has since rewritten
\* the balance to the sum of the entries.
C31_Witness ==
  /\ resp.status = "ok"
  /\ Len(ledger) = 2
  /\ ledger[2].userId = "u1"
  /\ gameBalance["u1"] = CompletedFold(ledger, "u1")

\* The ledger entries of an account, in insertion order.
EntriesOf(led, u) == LET Mine(e) == e.userId = u IN SelectSeq(led, Mine)

\* Everything the database holds about an account.
AccountState(u) ==
  << gameBalance[u], solanaAddress[u], withdrawAddress[u], EntriesOf(ledger, u) >>

\* C32: a step of a handler running for account A leaves the balance, the
\* solanaAddress, the withdrawAddress and the ledger entries of every other
\* account as they were, whatever requests of that other account are in
\* flight; and the step that only admits a request writes nothing.
C32_OtherAccountsUntouched ==
  [][/\ \A p \in Procs :
          (pc[p] # "idle" /\ pc'[p] # pc[p])
            => \A b \in Users \ {loc[p].uid} : AccountState(b)' = AccountState(b)
     /\ (\A p \in Procs : pc[p] = "idle" \/ pc'[p] = pc[p]) => db' = db]_vars

\* A request of u1 has changed u1's balance while a request of u2 is parked
\* at one of its saves, and u2's account is as it was.
C32_Witness ==
  /\ \E q \in Procs : loc[q].uid = "u2" /\ pc[q] \in SavePcs
  /\ gameBalance["u1"] # InitialBalance("u1")
  /\ AccountState("u2") = << InitialBalance("u2"), "B", NoAddr, << FirstDeposit >> >>

\* The balance an account was created with: what it held before the
\* requests, less what its entries of that time add up to.
StartingBalanceOf(u) == InitialBalance(u) - CompletedFold(<< FirstDeposit >>, u)

\* C33: with manual deposits, withdrawals and bets as the only handlers (no
\* reconcile runs), once every request has ended with its entry appended,
\* each balance exceeds the signed sum of the account's completed entries
\* by exactly the balance the account was created with.
C33_BalanceMinusFoldIsStartingBalance ==
  (AllIdle /\ Len(ledger) = 1 + nreq) =>
    \A u \in Users :
      gameBalance[u] - CompletedFold(ledger, u) = StartingBalanceOf(u)

\* C34: no account's balance is negative in any state, the states a
\* reconcile leaves behind included.
C34_BalanceNeverNegative ==
  \A u \in Users : gameBalance[u] >= 0

\* The wallet whose USDC account a transaction paid into.
RECURSIVE RecipientIn(_)
RecipientIn(rows) ==
  IF rows = << >> THEN NoAddr
  ELSE IF Head(rows).mint = USDC_MINT /\ Head(rows).post > Head(rows).pre
       THEN Head(rows).owner
       ELSE RecipientIn(Tail(rows))
ChainRecipient(sig) == RecipientIn(ChainTx(sig).rows)

\* C35: a deposit request for a transaction whose USDC did not go to the
\* treasury never writes anything: no balance is credited, no address is
\* bound, no entry is appended.
C35_OnlyTransfersToTreasuryCredited ==
  [][\A p \in Procs :
       (loc[p].op = "deposit" /\ pc'[p] # pc[p]
        /\ ChainRecipient(loc[p].sig) # TreasuryOwner)
         => db' = db]_vars

\* C36: no two accounts have the same solanaAddress.
C36_BoundAddressesDistinct ==
  \A u, v \in Users :
    (u # v /\ solanaAddress[u] # NoAddr) => solanaAddress[u] # solanaAddress[v]

\* C37: the entry appended by update-balance is a bet_win exactly when the
\* request raised the balance and a bet_loss exactly when it lowered it, and
\* its signed amount is the change written to the balance.
C37_UpdateBalanceKindMatchesSign ==
  [][\A p \in Procs :
       (pc[p] = "upd_saveTx" /\ ledger' # ledger)
         => LET e == ledger'[Len(ledger')]
            IN /\ e.type = "bet_win" <=> loc[p].delta > 0
               /\ e.type = "bet_loss" <=> loc[p].delta < 0
               /\ Signed(e) = loc[p].delta]_vars

\* C38: with deposit requests at dice3d.js, one at a time, and the
\* background scan as the only writers, once all have finished, every
\* transfer recorded in
\* this run has exactly one entry, and the balances have risen by exactly
\* the total of those entries: each transfer was credited once.
C38_ScanAndDepositCreditOnce ==
  AllIdle =>
    /\ \A sig \in Sigs : Cardinality(EntriesFor(sig)) <= 1
    /\ SumBalances(Users) - (STARTING_BALANCE + FirstDeposit.tokenAmount)
         = SumDeposits(ledger) - FirstDeposit.tokenAmount

====
